---------------------------- MODULE Spec2Model ----------------------------
(***************************************************************************)
(* A model of the anaesthesiologist scheduling pipeline:                  *)
(*   - the calendar (data/utils.py: holidays_that_year, is_workday),      *)
(*   - the week splitter (data/quarterly_json_week_splitter.py),          *)
(*   - the shift deriver (data/derive_shifts_from_schedule.py),           *)
(*   - the schedule model (data/schedule.py: DoctorSchedule),             *)
(*   - the weekly program (models/allocation_model.py: AllocationModel)   *)
(*     as driven by models/schedule_optimizer.py: main.                   *)
(* Dates are proleptic Gregorian ordinals, as datetime.date.toordinal().  *)
(***************************************************************************)
EXTENDS Integers, Sequences, FiniteSets, TLC

VARIABLES
    pc,             \* position of the running command
    input_date,     \* is_workday: the date asked about, <<year, month, day>>
    special,        \* rows of ../data/special_holidays.csv, as ordinals
    workday_result, \* is_workday: the returned pair (is_workday, label)
    data,           \* split_into_weeks: the year -> month -> day input, as its keys
    todo,           \* split_into_weeks: the (year, month, day) items still to visit
    split_year,     \* split_into_weeks: the loop variable `year`
    weekly_data,    \* split_into_weeks: week key -> date key -> day record
    rawdata,        \* DoctorSchedule.rawdata: the weekly schedule JSON
    requirements,   \* the requests overlay JSON given with --requests
    preassigned,    \* DoctorSchedule.preassigned: per day, order -> doctor
    solution,       \* AllocationModel: the values of x, y, z, w, central_value
    weeks,          \* the shift deriver's input: the week's start and the snapshots
    new_structure,  \* the shift deriver's new_structure, per date of the week
    status,         \* AllocationModel.m: the solver's Status and SolCount
    diagnostic,     \* what debug_constraints ended with, once it has run
    files,          \* the files a command leaves: file name -> content
    objective       \* _set_objective: the three objectives of a solution and total_obj

calVars == <<input_date, special, workday_result>>
splitVars == <<data, todo, split_year, weekly_data>>
schedVars == <<rawdata, requirements, preassigned, solution>>

deriveVars == <<weeks, new_structure>>

runVars == <<status, diagnostic, files>>

vars == <<pc, calVars, splitVars, schedVars, deriveVars, runVars, objective>>

NoValue == "None"

\* a Gurobi model before optimize(): Status LOADED, no solution stored
LOADED == [code |-> "LOADED", SolCount |-> 0]

-----------------------------------------------------------------------------
(* datetime.date arithmetic, as CPython's datetime computes it.            *)

IsLeap(y) == (y % 4 = 0) /\ ((y % 100 # 0) \/ (y % 400 = 0))

DaysInMonth(y, m) ==
    IF m = 2 THEN (IF IsLeap(y) THEN 29 ELSE 28)
    ELSE IF m \in {4, 6, 9, 11} THEN 30 ELSE 31

RECURSIVE DaysBeforeMonth(_, _)
DaysBeforeMonth(y, m) ==
    IF m <= 1 THEN 0 ELSE DaysBeforeMonth(y, m - 1) + DaysInMonth(y, m - 1)

DaysBeforeYear(y) ==
    (y - 1) * 365 + ((y - 1) \div 4) - ((y - 1) \div 100) + ((y - 1) \div 400)

\* datetime.date(y, m, d) raises ValueError unless this holds
ValidDate(y, m, d) == m \in 1..12 /\ d >= 1 /\ d <= DaysInMonth(y, m)

\* date(y, m, d).toordinal()
Ymd2Ord(y, m, d) == DaysBeforeYear(y) + DaysBeforeMonth(y, m) + d

\* date.weekday(): Monday is 0, Sunday is 6
Weekday(n) == (n + 6) % 7

\* generate_dates(start, end): the dates start..end, both included
generate_dates(start, end) == start..end

-----------------------------------------------------------------------------
(* Calendar: data/utils.py                                                 *)

\* memorial_day_weekend(): last Monday of May, Saturday to Monday
memorial_day_weekend(year) ==
    LET last_day_of_may == Ymd2Ord(year, 5, 31)
        end == last_day_of_may - Weekday(last_day_of_may)
    IN  <<end - 2, end>>

\* labor_day_weekend(): first Monday of September, Saturday to Monday
labor_day_weekend(year) ==
    LET day_of_week == Weekday(Ymd2Ord(year, 9, 1))
        days_to_add == (7 - day_of_week) % 7
        end == Ymd2Ord(year, 9, 1 + days_to_add)
    IN  <<end - 2, end>>

\* thanksgiving_weekend(): fourth Thursday of November, Thursday to Sunday
thanksgiving_weekend(year) ==
    LET day_of_week == Weekday(Ymd2Ord(year, 11, 1))
        start == Ymd2Ord(year, 11, 22 + ((3 - day_of_week) % 7))
    IN  <<start, start + 3>>

\* fixed_date_holidays(holiday): the closure around a fixed-date holiday
fixed_date_holidays(holiday) ==
    LET day_of_week == Weekday(holiday)
    IN  IF day_of_week \in 1..3 THEN <<holiday, holiday>>
        ELSE IF day_of_week = 0 THEN <<holiday - 2, holiday>>
        ELSE IF day_of_week = 4 THEN <<holiday, holiday + 2>>
        ELSE <<holiday - 1, holiday + 1>>

HolidayNames ==
    {"New Years", "Memorial Day", "Independence Day", "Labor Day",
     "Thanksgiving", "Christmas"}

\* the (start, end) pair of each holiday of `year`
holiday_span(year, name) ==
    CASE name = "New Years" -> fixed_date_holidays(Ymd2Ord(year, 1, 1))
      [] name = "Memorial Day" -> memorial_day_weekend(year)
      [] name = "Independence Day" -> fixed_date_holidays(Ymd2Ord(year, 7, 4))
      [] name = "Labor Day" -> labor_day_weekend(year)
      [] name = "Thanksgiving" -> thanksgiving_weekend(year)
      [] name = "Christmas" -> fixed_date_holidays(Ymd2Ord(year, 12, 25))

\* holidays_that_year(year): holiday name -> its dates
holidays_that_year(year) ==
    [name \in HolidayNames |->
        generate_dates(holiday_span(year, name)[1], holiday_span(year, name)[2])]

\* the year of the date with ordinal n
YearOf(n) ==
    CHOOSE y \in (n \div 366)..(n \div 365 + 1) :
        DaysBeforeYear(y) < n /\ n <= DaysBeforeYear(y + 1)

\* custom_holidays(input_date): the dates that are holidays, for the year of
\* input_date only: the fixed table of that year plus the special rows of that year
custom_holidays(year, rows) ==
    LET special_holidays == {r \in rows : YearOf(r) = year}
        holidays == UNION {holidays_that_year(year)[name] : name \in HolidayNames}
    IN  holidays \cup special_holidays

\* the label is_workday returns with False: the holiday's name or None
HolidayLabel(year, rows, date) ==
    IF date \in {r \in rows : YearOf(r) = year} THEN "Special"
    ELSE IF \E name \in HolidayNames : date \in holidays_that_year(year)[name]
         THEN CHOOSE name \in HolidayNames : date \in holidays_that_year(year)[name]
         ELSE NoValue

\* is_workday(input_date) -> (is_workday, label)
is_workday(year, date, rows) ==
    IF date \in custom_holidays(year, rows) THEN <<FALSE, HolidayLabel(year, rows, date)>>
    ELSE IF Weekday(date) >= 5 THEN <<FALSE, NoValue>>
    ELSE <<TRUE, NoValue>>

-----------------------------------------------------------------------------
(* Calendar queries: one call of is_workday on one date.                   *)

FirstYear == 2019
NumYears == 4
CalYears == FirstYear..(FirstYear + NumYears - 1)

\* the special-holidays files considered: empty, or one extra day off
SpecialFiles == { {}, {Ymd2Ord(2021, 11, 26)} }

CalInit ==
    /\ pc = "cal"
    /\ input_date \in {dt \in CalYears \X (1..12) \X (1..31) : ValidDate(dt[1], dt[2], dt[3])}
    /\ special \in SpecialFiles
    /\ workday_result = <<FALSE, NoValue>>
    /\ data = {} /\ todo = <<>> /\ split_year = 0 /\ weekly_data = {}
    /\ rawdata = NoValue /\ requirements = NoValue /\ preassigned = NoValue
    /\ solution = NoValue
    /\ weeks = NoValue /\ new_structure = NoValue
    /\ status = LOADED /\ diagnostic = NoValue /\ files = <<>> /\ objective = NoValue

IsWorkdayCall ==
    /\ pc = "cal"
    /\ pc' = "cal_done"
    /\ workday_result' = is_workday(input_date[1],
                                    Ymd2Ord(input_date[1], input_date[2], input_date[3]),
                                    special)
    /\ UNCHANGED <<input_date, special, splitVars, schedVars, deriveVars, runVars, objective>>

CalNext == IsWorkdayCall

SpecCal == CalInit /\ [][CalNext]_vars

\* the extended span of holiday `name` of year y
ExtendedSpan(y, name) == generate_dates(holiday_span(y, name)[1], holiday_span(y, name)[2])

InputOrd == Ymd2Ord(input_date[1], input_date[2], input_date[3])

\* C10: is_workday(d) is false for every Saturday and Sunday and for every date
\* inside the extended span of any holiday (fixed-date, Memorial Day, Labor Day,
\* Thanksgiving or custom), whichever calendar year d itself falls in.
C10_HolidayClassification ==
    pc = "cal_done" =>
        ( ( \/ Weekday(InputOrd) >= 5
            \/ InputOrd \in special
            \/ \E y \in (FirstYear - 1)..(FirstYear + NumYears) : \E name \in HolidayNames :
                    InputOrd \in ExtendedSpan(y, name) )
          => workday_result[1] = FALSE )

-----------------------------------------------------------------------------
(* Week splitter: data/quarterly_json_week_splitter.py                     *)

MonthNames ==
    <<"Jan", "Feb", "Mar", "Apr", "May", "Jun", "Jul", "Aug", "Sep", "Oct", "Nov", "Dec">>

\* month_name_to_number(month_name)
month_name_to_number(month_name) ==
    CHOOSE i \in 1..12 : MonthNames[i] = month_name

\* the place of a month name in sorted(months.items()): alphabetical
MonthSortKey(month_name) ==
    CASE month_name = "Apr" -> 1 [] month_name = "Aug" -> 2 [] month_name = "Dec" -> 3
      [] month_name = "Feb" -> 4 [] month_name = "Jan" -> 5 [] month_name = "Jul" -> 6
      [] month_name = "Jun" -> 7 [] month_name = "Mar" -> 8 [] month_name = "May" -> 9
      [] month_name = "Nov" -> 10 [] month_name = "Oct" -> 11 [] month_name = "Sep" -> 12

\* the place of a day key in sorted(days.items()): the keys are the decimal
\* strings "1".."31", compared as strings ("1" < "10" < "19" < "2" < "20")
DaySortKey(day) == IF day < 10 THEN day * 100 ELSE (day \div 10) * 100 + (day % 10) + 1

\* item a is visited before item b by the three nested sorted() loops
VisitedBefore(a, b) ==
    \/ a[1] < b[1]
    \/ a[1] = b[1] /\ MonthSortKey(a[2]) < MonthSortKey(b[2])
    \/ a[1] = b[1] /\ a[2] = b[2] /\ DaySortKey(a[3]) < DaySortKey(b[3])

RECURSIVE VisitOrder(_)
VisitOrder(items) ==
    IF items = {} THEN <<>>
    ELSE LET first == CHOOSE a \in items : \A b \in items \ {a} : VisitedBefore(a, b)
         IN  <<first>> \o VisitOrder(items \ {first})

\* the Monday that starts ISO week 1 of year y (datetime._isoweek1monday)
IsoWeek1Monday(y) ==
    LET firstday == Ymd2Ord(y, 1, 1)
        firstweekday == (firstday + 6) % 7
        week1monday == firstday - firstweekday
    IN  IF firstweekday > 3 THEN week1monday + 7 ELSE week1monday

\* date(y, m, d).isocalendar()[0:2]: (ISO year, ISO week number)
isocalendar(y, m, d) ==
    LET today == Ymd2Ord(y, m, d)
        week == (today - IsoWeek1Monday(y)) \div 7
    IN  IF today < IsoWeek1Monday(y)
        THEN <<y - 1, ((today - IsoWeek1Monday(y - 1)) \div 7) + 1>>
        ELSE IF week >= 52 /\ today >= IsoWeek1Monday(y + 1)
        THEN <<y + 1, 1>>
        ELSE <<y, week + 1>>

\* flatten_dict(data): "YYYY-MM-DD" -> day record. A day record is named by the
\* input item it was read from.
flatten_dict(d) ==
    { [date |-> <<k[1], month_name_to_number(k[2]), k[3]>>, rec |-> k] : k \in d }

\* weekly_data[week_key][date_key] = day_data
DictPut(weekly, week_key, date_key, day_data) ==
    { e \in weekly : ~(e.week = week_key /\ e.date = date_key) }
        \cup { [week |-> week_key, date |-> date_key, rec |-> day_data] }

\* combine_weekly_data(files): the weekly files read back into one mapping
combine_weekly_data(weekly) == { [date |-> e.date, rec |-> e.rec] : e \in weekly }

\* compare_dicts(dict1, dict2)
compare_dicts(dict1, dict2) == dict1 = dict2

FirstSplitYear == 2020
MaxSplitDays == 3

SplitYears == FirstSplitYear..(FirstSplitYear + 1)
SplitItems ==
    { k \in SplitYears \X {"Jan", "Mar", "Dec"} \X {1, 2, 4, 31} :
        ValidDate(k[1], month_name_to_number(k[2]), k[3]) }

SplitInit ==
    /\ pc = "split_loop"
    /\ data \in { d \in SUBSET SplitItems : d # {} /\ Cardinality(d) <= MaxSplitDays }
    /\ todo = VisitOrder(data)
    /\ split_year = 0
    /\ weekly_data = {}
    /\ input_date = <<0, 0, 0>> /\ special = {} /\ workday_result = <<FALSE, NoValue>>
    /\ rawdata = NoValue /\ requirements = NoValue /\ preassigned = NoValue
    /\ solution = NoValue
    /\ weeks = NoValue /\ new_structure = NoValue
    /\ status = LOADED /\ diagnostic = NoValue /\ files = <<>> /\ objective = NoValue

\* one pass of the innermost loop body of split_into_weeks
SplitStep ==
    /\ pc = "split_loop"
    /\ todo # <<>>
    /\ LET item == Head(todo)
           \* `for year, months in ...` rebinds year when the outer loop advances;
           \* inside the inner loops year is whatever the body last assigned
           outer_advanced == Len(todo) = Cardinality(data)
                               \/ \E j \in 1..Len(VisitOrder(data)) - 1 :
                                    /\ VisitOrder(data)[j + 1] = item
                                    /\ VisitOrder(data)[j][1] # item[1]
           yr == IF outer_advanced THEN item[1] ELSE split_year
           mo == month_name_to_number(item[2])
       IN  IF ~ValidDate(yr, mo, item[3])
           THEN /\ pc' = "split_error"     \* datetime.date raises ValueError
                /\ UNCHANGED <<todo, split_year, weekly_data, runVars, objective>>
           ELSE /\ split_year' = isocalendar(yr, mo, item[3])[1]
                /\ weekly_data' = DictPut(weekly_data, isocalendar(yr, mo, item[3]),
                                          <<yr, mo, item[3]>>, item)
                /\ todo' = Tail(todo)
                /\ pc' = "split_loop"
    /\ UNCHANGED <<data, calVars, schedVars, deriveVars, runVars, objective>>

\* split_into_weeks returns; __main__ recombines the weeks and compares
RoundTripCheck ==
    /\ pc = "split_loop"
    /\ todo = <<>>
    /\ pc' = IF compare_dicts(combine_weekly_data(weekly_data), flatten_dict(data))
             THEN "split_ok" ELSE "split_assert_failed"
    /\ UNCHANGED <<data, todo, split_year, weekly_data, calVars, schedVars, deriveVars, runVars, objective>>

SplitNext == SplitStep \/ RoundTripCheck

SpecSplit == SplitInit /\ [][SplitNext]_vars

\* C9: flattening the per-week buckets produced by split_into_weeks yields
\* exactly the date -> record mapping obtained by flattening the input: every
\* input day appears once, under its own calendar date, in the bucket of that
\* date's ISO week, with its record unchanged.
C9_SplitRoundTrip ==
    (pc = "split_loop" /\ todo = <<>>) =>
        /\ combine_weekly_data(weekly_data) = flatten_dict(data)
        /\ \A k \in data :
             \E e \in weekly_data :
                /\ e.rec = k
                /\ e.date = <<k[1], month_name_to_number(k[2]), k[3]>>
                /\ e.week = isocalendar(k[1], month_name_to_number(k[2]), k[3])
                /\ \A f \in weekly_data : f.rec = k => f = e

-----------------------------------------------------------------------------
(* Staff registry: data/staff.py                                           *)

ADMIN_IDENTIFIER == "AD"
unknown == "X"

\* Doctors.everyone / charge_doctors / cardiac_doctors for the staff file
\*   AA (charge, cardiac), BB (charge), CC (cardiac), DD (charge), EE (cardiac)
everyone == <<"AA", "BB", "CC", "DD", "EE">>
charge_doctors == {"AA", "BB", "DD"}
cardiac_doctors == {"AA", "CC", "EE"}

Range(s) == { s[i] : i \in DOMAIN s }
Remove(s, e) == SelectSeq(s, LAMBDA v : v # e)

\* list.remove(e): drops the first occurrence only
RemoveFirst(s, e) ==
    IF \E i \in DOMAIN s : s[i] = e
    THEN LET i == CHOOSE i \in DOMAIN s : s[i] = e /\ \A j \in 1..(i - 1) : s[j] # e
         IN  SubSeq(s, 1, i - 1) \o SubSeq(s, i + 1, Len(s))
    ELSE s

RECURSIVE SumSeq(_)
SumSeq(s) == IF s = <<>> THEN 0 ELSE Head(s) + SumSeq(Tail(s))

RECURSIVE SumOver(_, _)
SumOver(S, f) ==
    IF S = {} THEN 0
    ELSE LET e == CHOOSE e \in S : TRUE IN f[e] + SumOver(S \ {e}, f)

Max(S) == CHOOSE m \in S : \A n \in S : n <= m

-----------------------------------------------------------------------------
(* Schedule model: data/schedule.py                                        *)

WEEKEND == "Weekend"
WORKDAY == "Workday"
ADMIN_POINTS == 8

TURN_ORDER ==
    <<"Post-Call", "Post-Holiday", "Post-Late", "Pre-Call", "Unassigned", "OnLate", "OnCall", "Admin">>

\* the fields of the input whose per-day value is a list; the others hold one
\* doctor or None
ListFields == {"Unassigned", "Admin", "Offsite"}

\* rawdata[turn_order][d] as a list: a scalar gives one item, None gives none
Items(raw, turn_order, d) ==
    IF turn_order \in ListFields THEN raw[turn_order][d]
    ELSE IF raw[turn_order][d] = NoValue THEN <<>> ELSE <<raw[turn_order][d]>>

\* DoctorSchedule.days: rawdata['Order']; a day is named by its place in the week
days(raw) == raw["Order"]

\* DoctorSchedule.weekdays
weekdays(raw) == SelectSeq(days(raw), LAMBDA day : raw["Day"][day] = WORKDAY)

\* transform_rawdata, remove_placeholder: one ADMIN_IDENTIFIER and one
\* placeholder are removed from every list of the TURN_ORDER fields (the
\* doctor identifiers of this staff file contain neither as a substring, so the
\* scalar fields are left alone)
remove_placeholder(raw) ==
    [ f \in DOMAIN raw |->
        IF f \in {"Unassigned", "Admin"}
        THEN [ d \in DOMAIN raw[f] |->
                 RemoveFirst(RemoveFirst(raw[f][d], ADMIN_IDENTIFIER), unknown) ]
        ELSE raw[f] ]

RECURSIVE Concat(_)
Concat(ss) == IF ss = <<>> THEN <<>> ELSE Head(ss) \o Concat(Tail(ss))

\* transform_rawdata.get_working_doctors(day)
get_working_doctors(raw, day) ==
    SelectSeq(Concat([ i \in DOMAIN TURN_ORDER |-> Items(raw, TURN_ORDER[i], day) ]),
              LAMBDA doctor : doctor # unknown /\ doctor # ADMIN_IDENTIFIER /\ doctor # NoValue)

\* transform_rawdata.get_offsite_doctors(day)
get_offsite_doctors(raw, day) ==
    SelectSeq(raw["Offsite"][day], LAMBDA doctor : doctor # unknown)

working(raw) == [ day \in Range(days(raw)) |-> get_working_doctors(raw, day) ]
offsite(raw) == [ day \in Range(days(raw)) |-> get_offsite_doctors(raw, day) ]

\* current_tally when transform_rawdata reaches TURN_ORDER[i] on a day
RECURSIVE current_tally(_, _, _)
current_tally(raw, i, day) ==
    IF i = 1 THEN 1
    ELSE current_tally(raw, i - 1, day)
            + (IF TURN_ORDER[i - 1] = "Admin" THEN 0
               ELSE Len(Items(raw, TURN_ORDER[i - 1], day)))

\* transform_rawdata: assignments[turn_order][day], a list of Assignment.
\* points is the pair (first, last) of the range of a list field, the fixed
\* ADMIN_POINTS of an admin slot, or the position of a single doctor.
assignments(raw, turn_order, day) ==
    LET i == CHOOSE i \in DOMAIN TURN_ORDER : TURN_ORDER[i] = turn_order
        items == Items(raw, turn_order, day)
        tally == current_tally(raw, i, day)
    IN  [ k \in DOMAIN items |->
            [ doctor |-> items[k],
              points |-> IF turn_order = "Admin" THEN <<ADMIN_POINTS, ADMIN_POINTS>>
                         ELSE IF turn_order \in ListFields
                         THEN <<tally, tally + Len(items) - 1>>
                         ELSE <<tally, tally>>,
              shift |-> turn_order ] ]

\* DoctorSchedule.Whine: the Unassigned pool of each day
Whine(raw) == [ day \in Range(days(raw)) |-> raw["Unassigned"][day] ]

\* DoctorSchedule.doctors: everybody working on some day
doctors(raw) == UNION { Range(working(raw)[day]) : day \in Range(days(raw)) }

\* DoctorSchedule.call_doctors
call_doctors(raw) == [ day \in Range(days(raw)) |-> <<raw["OnCall"][day], raw["OnLate"][day]>> ]

\* _process_data: preassigned[day], a dict kept as its (order, doctor) items in
\* insertion order
RECURSIVE PreassignedFrom(_, _, _)
PreassignedFrom(raw, i, day) ==
    IF i > Len(TURN_ORDER) THEN <<>>
    ELSE (IF TURN_ORDER[i] \in {"Unassigned", "Admin"} THEN <<>>
          ELSE [ k \in DOMAIN assignments(raw, TURN_ORDER[i], day) |->
                   << assignments(raw, TURN_ORDER[i], day)[k].points[1],
                      assignments(raw, TURN_ORDER[i], day)[k].doctor >> ])
         \o PreassignedFrom(raw, i + 1, day)

process_preassigned(raw) == [ day \in Range(days(raw)) |-> PreassignedFrom(raw, 1, day) ]

\* dict views of preassigned[day]
Keys(items) == { items[k][1] : k \in DOMAIN items }
Values(items) == { items[k][2] : k \in DOMAIN items }

potential_charge_doctors(raw) ==
    [ day \in Range(days(raw)) |->
        (Range(call_doctors(raw)[day]) \cup Range(Whine(raw)[day])) \cap charge_doctors ]

potential_cardiac_doctors(raw) ==
    [ day \in Range(days(raw)) |-> Range(call_doctors(raw)[day]) \cap cardiac_doctors ]

\* DoctorSchedule.Admin: the named doctors of the admin slots
Admin(raw) == [ day \in Range(days(raw)) |-> Remove(raw["Admin"][day], ADMIN_IDENTIFIER) ]

\* DoctorSchedule.last_order(day) and DoctorSchedule.orders
last_order(pre, day) == Max(Keys(pre[day]))
orders(raw, pre) == 1..Max({ last_order(pre, day) : day \in Range(days(raw)) })

\* a charge order that is the position after a pool that follows one role
charge_order_beyond(raw, pre) ==
    [ day \in Range(days(raw)) |-> Len(Whine(raw)[day]) + 2 ]

\* DoctorSchedule.charge_order
charge_order(raw, pre) ==
    [ day \in Range(days(raw)) |->
        Len(Whine(raw)[day])
          + Cardinality({ o \in Keys(pre[day]) : o < Len(Whine(raw)[day]) + 2 }) ]

HasDuplicates(s) == \E i, j \in DOMAIN s : i < j /\ s[i] = s[j]
Count(s, e) == Cardinality({ i \in DOMAIN s : s[i] = e })
SameItems(s, t) == \A e \in Range(s) \cup Range(t) : Count(s, e) = Count(t, e)

\* DoctorSchedule.validate: TRUE when no error is collected
\* validate(): the list `errors`, a message being <<text>> or <<text, day>>
validate_errors(raw) ==
    LET If(failed, message) == IF failed THEN <<message>> ELSE <<>>
        is_weekday(day) == day \in Range(weekdays(raw))
        sanity(day) ==
            If(HasDuplicates(working(raw)[day]), <<"Duplicate doctors found working on", day>>)
            \o If(HasDuplicates(offsite(raw)[day]), <<"Duplicate doctors found offsite on", day>>)
            \o If(Range(working(raw)[day]) \cap Range(offsite(raw)[day]) # {},
                  <<"Offsite doctors found working on", day>>)
            \o If(is_weekday(day) /\ ~SameItems(everyone, working(raw)[day] \o offsite(raw)[day]),
                  <<"Missing doctors found on", day>>)
        day_type(day) ==
            LET date == raw["Period"] + (day - 1)
                not_weekend == is_workday(YearOf(date), date, {})[1]
            IN  If(is_weekday(day) /\ ~not_weekend, <<"is a workday but", day>>)
                \o If(~is_weekday(day) /\ not_weekend, <<"is not a weekend but is", day>>)
        admin(day) ==
            Concat([ k \in DOMAIN assignments(raw, "Admin", day) |->
                       If(assignments(raw, "Admin", day)[k].doctor \in Range(Whine(raw)[day]),
                          <<"Admin doctor also in Whine zone on", day>>) ])
        each(check(_)) == Concat([ d \in DOMAIN days(raw) |-> check(days(raw)[d]) ])
    IN  If(\E day \in Range(weekdays(raw)) : potential_charge_doctors(raw)[day] = {},
           <<"No potential charge doctors found for at least one day.">>)
        \o If(\E day \in Range(weekdays(raw)) : potential_cardiac_doctors(raw)[day] = {},
              <<"No potential cardiac doctors found for at least one day.">>)
        \o If(~SameItems(raw["Doctors"], everyone),
              <<"Doctor list in schedule does not match doctor list in staff file.">>)
        \o each(sanity) \o each(day_type) \o each(admin)

validate(raw) ==
    /\ \A day \in Range(weekdays(raw)) : potential_charge_doctors(raw)[day] # {}
    /\ \A day \in Range(weekdays(raw)) : potential_cardiac_doctors(raw)[day] # {}
    /\ SameItems(raw["Doctors"], everyone)
    /\ \A day \in Range(days(raw)) :
         /\ ~HasDuplicates(working(raw)[day])
         /\ ~HasDuplicates(offsite(raw)[day])
         /\ Range(working(raw)[day]) \cap Range(offsite(raw)[day]) = {}
         /\ day \in Range(weekdays(raw))
              => SameItems(everyone, working(raw)[day] \o offsite(raw)[day])
    /\ \A day \in Range(days(raw)) :
         LET date == raw["Period"] + (day - 1)
         IN  (day \in Range(weekdays(raw))) = is_workday(YearOf(date), date, {})[1]
    /\ \A day \in Range(days(raw)) :
         \A k \in DOMAIN assignments(raw, "Admin", day) :
            assignments(raw, "Admin", day)[k].doctor \notin Range(Whine(raw)[day])

\* _process_data(rawdata): the cleaned rawdata and the preassigned positions
_process_data(raw) ==
    [ rawdata |-> remove_placeholder(raw),
      preassigned |-> process_preassigned(remove_placeholder(raw)) ]

\* a variant of the Admin overlay that leaves the named doctors in the
\* Unassigned pool and in Offsite
RECURSIVE AdminOverlay_keep(_, _, _)
AdminOverlay_keep(acc, req, d) ==
    IF d > Len(days(acc.rawdata)) THEN acc
    ELSE IF req["Admin"][d] = <<>> THEN AdminOverlay_keep(acc, req, d + 1)
    ELSE LET named == \E k \in DOMAIN req["Admin"][d] : req["Admin"][d][k] # ADMIN_IDENTIFIER
         IN  AdminOverlay_keep([ rawdata |-> [acc.rawdata EXCEPT !["Admin"][d] = req["Admin"][d]],
                                 reprocess |-> acc.reprocess \/ named ], req, d + 1)

\* load_requirements, first loop: the Admin overlay
\* (d runs over the days; acc carries rawdata and the reprocess flag)
RECURSIVE AdminOverlay(_, _, _)
AdminOverlay(acc, req, d) ==
    IF d > Len(days(acc.rawdata)) THEN acc
    ELSE IF req["Admin"][d] = <<>> THEN AdminOverlay(acc, req, d + 1)
    ELSE LET raw == acc.rawdata
             named == \E k \in DOMAIN req["Admin"][d] : req["Admin"][d][k] # ADMIN_IDENTIFIER
             raw1 == [raw EXCEPT !["Admin"][d] = req["Admin"][d]]
             raw2 == [raw1 EXCEPT
                        !["Unassigned"][d] =
                            SelectSeq(raw["Unassigned"][d], LAMBDA doc : doc \notin Range(req["Admin"][d])),
                        !["Offsite"][d] =
                            SelectSeq(raw["Offsite"][d], LAMBDA doc : doc \notin Range(req["Admin"][d]))]
         IN  AdminOverlay([ rawdata |-> IF named THEN raw2 ELSE raw1,
                            reprocess |-> acc.reprocess \/ named ], req, d + 1)

\* a second loop that stores a pin before testing it
RECURSIVE WhinePins_add(_, _, _)
WhinePins_add(items, pins, work) ==
    IF pins = <<>> THEN [ok |-> TRUE, items |-> items]
    ELSE LET doctor == Head(pins)[1]
             order == Head(pins)[2]
             added == Append(items, <<order, doctor>>)
         IN  IF order \in Keys(items) \/ doctor \notin Range(work)
             THEN [ok |-> FALSE, items |-> added]
             ELSE WhinePins_add(added, Tail(pins), work)

\* load_requirements, second loop: the Whine pins of one day, in list order;
\* ok is FALSE when an assertion fails, items is preassigned[day] at that point
RECURSIVE WhinePins(_, _, _)
WhinePins(items, pins, work) ==
    IF pins = <<>> THEN [ok |-> TRUE, items |-> items]
    ELSE LET doctor == Head(pins)[1]
             order == Head(pins)[2]
         IN  IF order \in Keys(items) \/ doctor \notin Range(work)
             THEN [ok |-> FALSE, items |-> items]
             ELSE WhinePins(Append(items, <<order, doctor>>), Tail(pins), work)

\* load_requirements(data_source): the new rawdata and preassigned; ok is FALSE
\* when an assertion fails, and the days after that one keep their entries
load_requirements(raw, pre, req) ==
    LET overlay == AdminOverlay([rawdata |-> raw, reprocess |-> FALSE], req, 1)
        raw1 == IF overlay.reprocess THEN _process_data(overlay.rawdata).rawdata ELSE overlay.rawdata
        pre1 == IF overlay.reprocess THEN _process_data(overlay.rawdata).preassigned ELSE pre
        pinned == [ day \in Range(days(raw1)) |->
                      WhinePins(pre1[day], req["Whine"][day], working(raw1)[day]) ]
        reached(day) == \A before \in Range(days(raw1)) : before < day => pinned[before].ok
    IN  [ ok |-> \A day \in Range(days(raw1)) : pinned[day].ok,
          rawdata |-> raw1,
          preassigned |-> [ day \in Range(days(raw1)) |->
                              IF reached(day) THEN pinned[day].items ELSE pre1[day] ] ]

-----------------------------------------------------------------------------
(* Allocation model: models/allocation_model.py                            *)
(* self.data is the DoctorSchedule held in rawdata and preassigned. The    *)
(* attributes data.working_doctors and data.call_and_late_call_doctors are *)
(* the schedule's doctors and call_doctors. A solution gives, for the      *)
(* binary variables, the set of indices whose variable is 1:               *)
(*   x[<<doctor, day>>] the orders, z[day] and w[day] the doctors, y the   *)
(* doctors; central_value is the integer variable.                         *)
(* _set_decision_variables holds a leftover `assert 1==2` after x is       *)
(* created (line 77), which stops every construction of AllocationModel;   *)
(* the program is described here without that statement.                   *)

working_doctors == doctors(rawdata)
call_and_late_call_doctors == call_doctors(rawdata)
model_days == Range(days(rawdata))
model_orders == orders(rawdata, preassigned)

\* objective weights, in thousandths
alpha == 1000
beta == 100
gamma == 1

\* the number of points given to admin roles
q == 8

\* _add_order_uniqueness_constraint, for the variables x[., day, .]
_add_order_uniqueness_constraint(x, day) ==
    \A order \in model_orders :
        Cardinality({ doctor \in working_doctors : order \in x[<<doctor, day>>] }) <= 1

\* _add_whine_doctor_constraints, for the variables x[doctor, day, .]
_add_whine_doctor_constraints(doctor, day, row) ==
    doctor \in Range(Whine(rawdata)[day]) => Cardinality(row) = 1

\* _add_preassigned_doctor_constraints, for the variables x[doctor, day, .]
_add_preassigned_doctor_constraints(doctor, day, row) ==
    /\ doctor \in Values(preassigned[day]) => Cardinality(row) = 1
    /\ \A k \in DOMAIN preassigned[day] :
          preassigned[day][k][2] = doctor => preassigned[day][k][1] \in row

\* _set_values_zero_for_unscheduled_doctors, for the variables x[doctor, day, .]
_set_values_zero_for_unscheduled_doctors(doctor, day, row) ==
    LET scheduled_doctors == Range(Whine(rawdata)[day]) \cup Values(preassigned[day])
    IN  doctor \notin scheduled_doctors => row = {}

\* _restrict_orders_beyond_last_call, for the variables x[doctor, day, .]:
\* list(preassigned[day].keys())[-1] is the key inserted last
_restrict_orders_beyond_last_call(doctor, day, row) ==
    \A order \in row : ~(order > preassigned[day][Len(preassigned[day])][1])

\* _adjust_total_order_for_admin_duties: the points added to a doctor's total
_adjust_total_order_for_admin_duties(doctor) ==
    q * SumSeq([ d \in DOMAIN days(rawdata) |->
                   IF doctor \in Range(Whine(rawdata)[days(rawdata)[d]])
                   THEN Count(Admin(rawdata)[days(rawdata)[d]], doctor) ELSE 0 ])

\* _calculate_total_order: total_order[doctor]
total_order(x, doctor) ==
    SumSeq([ d \in DOMAIN days(rawdata) |->
               SumOver(x[<<doctor, days(rawdata)[d]>>], [ order \in model_orders |-> order ]) ])
      + _adjust_total_order_for_admin_duties(doctor)

\* _add_constraints_for_doctor_order_equity: the constant M
big_M == Len(days(rawdata)) * Cardinality(model_orders)

\* a variant of the equity constraints whose band is 2 points wide on each side
_add_constraints_for_doctor_order_equity_wide(M, total, central_value, doctor, y_doctor) ==
    /\ total[doctor] - (central_value - 2) >= -M * (1 - y_doctor)
    /\ (central_value + 2) - total[doctor] >= -M * (1 - y_doctor)

\* _add_constraints_for_doctor_order_equity, for the variable y[doctor];
\* total is self.total_order
_add_constraints_for_doctor_order_equity(M, total, central_value, doctor, y_doctor) ==
    /\ total[doctor] - (central_value - 1) >= -M * (1 - y_doctor)
    /\ (central_value + 1) - total[doctor] >= -M * (1 - y_doctor)

\* total_in_cardiac[doctor] and total_in_charge[doctor]
total_in_cardiac(w, doctor) ==
    Cardinality({ day \in model_days :
                    doctor \in w[day] /\ doctor \in Range(call_and_late_call_doctors[day]) })
total_in_charge(z, doctor) == Cardinality({ day \in model_days : doctor \in z[day] })

\* _add_cardiac_constraints: one_cardiac
one_cardiac(w) ==
    \A day \in model_days :
        Cardinality(w[day] \cap potential_cardiac_doctors(rawdata)[day]) = 1

\* _add_charge_constraints: one_in_charge
one_in_charge(z) ==
    \A day \in model_days :
        Cardinality(z[day] \cap potential_charge_doctors(rawdata)[day]) = 1

\* _add_charge_constraints: charge_order_constr
charge_order_constr(x, z) ==
    \A day \in model_days :
        \A doctor \in charge_doctors \cap Range(Whine(rawdata)[day]) :
            doctor \in z[day] => charge_order(rawdata, preassigned)[day] \in x[<<doctor, day>>]

\* _add_no_cardiac_and_charge_dual_role_constraints: cardiac_charge_conflict
_add_no_cardiac_and_charge_dual_role_constraints(z, w) ==
    LET common_doctors == charge_doctors \cap cardiac_doctors
    IN  \A doctor \in common_doctors : \A day \in model_days :
           ~(doctor \in w[day] /\ doctor \in z[day])

\* _add_no_consecutive_charge_constraints
_add_no_consecutive_charge_constraints(z) ==
    \A doctor \in charge_doctors :
        \A i \in 1..(Len(days(rawdata)) - 1) :
            ~(doctor \in z[days(rawdata)[i]] /\ doctor \in z[days(rawdata)[i + 1]])

\* the least values the constraints leave to max_w, max_z and max_wz
\* (continuous variables with lower bound 0)
max_w(w) == Max({0} \cup { total_in_cardiac(w, doctor) : doctor \in cardiac_doctors })
max_z(z) == Max({0} \cup { total_in_charge(z, doctor) : doctor \in charge_doctors })
max_wz(z, w) ==
    Max({0} \cup { total_in_charge(z, doctor) + total_in_cardiac(w, doctor) :
                     doctor \in charge_doctors \cap cardiac_doctors })

\* _set_objective: the three parts of total_obj
equity_obj(y) == Cardinality(y)
cardiac_charge_obj(z, w) == max_w(w) + max_z(z) + max_wz(z, w)
priority_charge_obj(z) ==
    SumOver(model_days,
            [ day \in model_days |->
                Cardinality({ doctor \in charge_doctors :
                                doctor \in Range(call_and_late_call_doctors[day])
                                /\ doctor \in z[day] }) ])
\* total_obj = alpha * equity_obj - beta * cardiac_charge_obj
\*             + gamma * priority_charge_obj
weighted_obj(equity, cardiac_charge, priority_charge) ==
    alpha * equity - beta * cardiac_charge + gamma * priority_charge

total_obj(y, z, w) ==
    weighted_obj(equity_obj(y), cardiac_charge_obj(z, w), priority_charge_obj(z))

\* every constraint of the model, on one assignment of its variables
Constraints(s) ==
    /\ \A day \in model_days :
         /\ _add_order_uniqueness_constraint(s.x, day)
         /\ \A doctor \in working_doctors :
              /\ _set_values_zero_for_unscheduled_doctors(doctor, day, s.x[<<doctor, day>>])
              /\ _restrict_orders_beyond_last_call(doctor, day, s.x[<<doctor, day>>])
              /\ _add_preassigned_doctor_constraints(doctor, day, s.x[<<doctor, day>>])
              /\ _add_whine_doctor_constraints(doctor, day, s.x[<<doctor, day>>])
    /\ \A doctor \in working_doctors :
         _add_constraints_for_doctor_order_equity(
             big_M, [ doc \in working_doctors |-> total_order(s.x, doc) ], s.central_value,
             doctor, IF doctor \in s.y THEN 1 ELSE 0)
    /\ one_cardiac(s.w)
    /\ one_in_charge(s.z)
    /\ charge_order_constr(s.x, s.z)
    /\ _add_no_cardiac_and_charge_dual_role_constraints(s.z, s.w)
    /\ _add_no_consecutive_charge_constraints(s.z)

Objective(s) == total_obj(s.y, s.z, s.w)

\* the functions on the keys K that take at each key a value of choice[key]
RECURSIVE Product(_, _)
Product(K, choice) ==
    IF K = {} THEN { <<>> }
    ELSE LET k == CHOOSE k \in K : TRUE
         IN  { (k :> v) @@ f : v \in choice[k], f \in Product(K \ {k}, choice) }

\* the values of x[., day, .] that meet the constraints on x alone
XDay(day) ==
    LET rows == [ key \in { <<doctor, day>> : doctor \in working_doctors } |->
                    { row \in SUBSET model_orders :
                        /\ _set_values_zero_for_unscheduled_doctors(key[1], day, row)
                        /\ _restrict_orders_beyond_last_call(key[1], day, row)
                        /\ _add_preassigned_doctor_constraints(key[1], day, row)
                        /\ _add_whine_doctor_constraints(key[1], day, row) } ]
    IN  { x \in Product(DOMAIN rows, rows) : _add_order_uniqueness_constraint(x, day) }

RECURSIVE XWeek(_)
XWeek(ds) ==
    IF ds = {} THEN { <<>> }
    ELSE LET d == CHOOSE d \in ds : TRUE
         IN  { f @@ g : f \in XDay(d), g \in XWeek(ds \ {d}) }

\* the values of (y, central_value) that meet the equity constraints for x and
\* have the most ones in y; central_value is a nonnegative integer, which the
\* big-M rows keep within M + 1 of every total
EquityChoices(x) ==
    LET total == [ doctor \in working_doctors |-> total_order(x, doctor) ]
        M == big_M
        feasible ==
            { yc \in { << { doctor \in working_doctors :
                              _add_constraints_for_doctor_order_equity(M, total, c, doctor, 1) },
                          c >> : c \in 0..(Max({0} \cup Range(total)) + M + 1) } :
                \A doctor \in working_doctors \ yc[1] :
                    _add_constraints_for_doctor_order_equity(M, total, yc[2], doctor, 0) }
        most == Max({ Cardinality(yc[1]) : yc \in feasible })
    IN  { yc \in feasible : Cardinality(yc[1]) = most }

\* the values of (z, w) that meet the constraints on the role variables alone,
\* each with its part of the objective
RoleChoices ==
    LET zs == { z \in [ model_days -> SUBSET charge_doctors ] :
                  one_in_charge(z) /\ _add_no_consecutive_charge_constraints(z) }
        ws == { w \in [ model_days -> SUBSET cardiac_doctors ] : one_cardiac(w) }
    IN  { [ z |-> zw[1], w |-> zw[2], obj |-> total_obj({}, zw[1], zw[2]) ] :
            zw \in { zw \in zs \X ws :
                       _add_no_cardiac_and_charge_dual_role_constraints(zw[1], zw[2]) } }

\* the assignments the solver can report with status OPTIMAL: they meet every
\* constraint and no assignment that does has a larger objective. The objective
\* is a sum of a term in y and a term in (z, w), and only charge_order_constr
\* ties (z, w) to x.
OptimalSolutions ==
    LET roles == RoleChoices
        BestFor(x) ==
            LET rs == { r \in roles : charge_order_constr(x, r.z) }
                top == IF rs = {} THEN 0 ELSE Max({ r.obj : r \in rs })
                eq == EquityChoices(x)
            IN  [ x |-> x, eq |-> eq, rs |-> { r \in rs : r.obj = top },
                  value |-> alpha * Max({ equity_obj(yc[1]) : yc \in eq }) + top ]
        xs == { b \in { BestFor(x) : x \in XWeek(model_days) } : b.rs # {} }
        best == Max({ b.value : b \in xs })
    IN  UNION { { [ x |-> b.x, y |-> yc[1], central_value |-> yc[2], z |-> r.z, w |-> r.w ] :
                    yc \in b.eq, r \in b.rs } :
                b \in { b \in xs : b.value = best } }

\* set_solution: the points of the day's solution['Whine'] entries that name
\* the doctor once the solver's orders are merged in
solution_whine(x, doctor, day) ==
    IF doctor \in Range(Whine(rawdata)[day])
    THEN SumOver(x[<<doctor, day>>], [ order \in model_orders |-> order ])
    ELSE 0

\* get_points_per_doctor(doctor, add_assigned=True) on the merged schedule
get_points_per_doctor(x, doctor) ==
    SumSeq([ d \in DOMAIN days(rawdata) |->
        LET day == days(rawdata)[d]
            fixed == [ i \in DOMAIN TURN_ORDER |->
                         IF TURN_ORDER[i] = "Unassigned" THEN solution_whine(x, doctor, day)
                         ELSE LET a == assignments(rawdata, TURN_ORDER[i], day)
                              IN  SumSeq([ k \in DOMAIN a |->
                                             IF a[k].doctor = doctor THEN a[k].points[1] ELSE 0 ]) ]
        IN  SumSeq(fixed) ])

-----------------------------------------------------------------------------
(* The inputs examined                                                      *)

NumDays == 3
MaxPinOrder == 6

\* Period.start of the input files: Mon 2019-07-01 (three workdays),
\* Wed 2019-07-03 (workday, Independence Day, workday) and Fri 2019-07-05
\* (workday, Saturday, Sunday)
PeriodStarts == { Ymd2Ord(2019, 7, 1), Ymd2Ord(2019, 7, 3), Ymd2Ord(2019, 7, 5) }

Doc(i) == everyone[(i % Len(everyone)) + 1]

\* a weekly schedule file as the shift deriver writes it: the call rota turns by
\* one doctor a day, yesterday's OnCall is today's Post-Call, and on a workday
\* everybody else is Unassigned
InputFile(start, r) ==
    LET day_type == [ d \in 1..NumDays |->
                        IF is_workday(YearOf(start + d - 1), start + d - 1, {})[1]
                        THEN WORKDAY ELSE WEEKEND ]
        on_call == [ d \in 1..NumDays |-> Doc(r + d) ]
        on_late == [ d \in 1..NumDays |-> Doc(r + d + 1) ]
        post_call == [ d \in 1..NumDays |-> IF day_type[d] = WORKDAY THEN Doc(r + d - 1) ELSE NoValue ]
        none == [ d \in 1..NumDays |-> NoValue ]
    IN  ("Period" :> start) @@ ("Order" :> [ d \in 1..NumDays |-> d ]) @@ ("Day" :> day_type)
        @@ ("Doctors" :> everyone)
        @@ ("OnCall" :> on_call) @@ ("OnLate" :> on_late) @@ ("Post-Call" :> post_call)
        @@ ("Post-Holiday" :> none) @@ ("Post-Late" :> none) @@ ("Pre-Call" :> none)
        @@ ("Unassigned" :> [ d \in 1..NumDays |->
                IF day_type[d] = WORKDAY
                THEN SelectSeq(everyone, LAMBDA doc : doc \notin {on_call[d], on_late[d], post_call[d]})
                ELSE <<>> ])
        @@ ("Admin" :> [ d \in 1..NumDays |-> IF day_type[d] = WORKDAY THEN <<ADMIN_IDENTIFIER>> ELSE <<>> ])
        @@ ("Offsite" :> [ d \in 1..NumDays |-> <<>> ])

\* a schedule file whose first day has no late-call doctor: AA is on call, BB is
\* Post-Late, DD is off-site and CC is the only Unassigned doctor, so AA is the
\* only potential charge and the only potential cardiac doctor of that day
SingleOptionFile(start) ==
    [InputFile(start, 4) EXCEPT !["OnLate"][1] = NoValue, !["Post-Late"][1] = "BB",
                                !["Offsite"][1] = <<"DD">>, !["Unassigned"][1] = <<"CC">>]

InputFiles ==
    { InputFile(start, r) : start \in PeriodStarts, r \in 0..(Len(everyone) - 1) }
        \cup { SingleOptionFile(start) : start \in PeriodStarts }

\* a requests file: at most one named admin slot and at most two Whine pins,
\* all on the first day
RequestFile(admin, pin) ==
    ("Admin" :> [ d \in 1..NumDays |-> IF d = 1 THEN admin ELSE <<>> ])
    @@ ("Whine" :> [ d \in 1..NumDays |-> IF d = 1 THEN pin ELSE <<>> ])

RequestFiles ==
    { RequestFile(admin, pin) :
        admin \in {<<>>} \cup { <<doc>> : doc \in {"DD", "EE"} },
        pin \in {<<>>, << <<"DD", 2>>, <<"AA", 2>> >>}
                  \cup { << <<doc, order>> >> : doc \in {"AA", "DD"}, order \in 2..MaxPinOrder } }

-----------------------------------------------------------------------------
(* The scheduling tool: models/schedule_optimizer.py                        *)

Init ==
    /\ pc = "start"
    /\ rawdata \in InputFiles
    /\ requirements \in RequestFiles
    /\ preassigned = NoValue
    /\ solution = NoValue
    /\ input_date = <<0, 0, 0>> /\ special = {} /\ workday_result = <<FALSE, NoValue>>
    /\ data = {} /\ todo = <<>> /\ split_year = 0 /\ weekly_data = {}
    /\ weeks = NoValue /\ new_structure = NoValue
    /\ status = LOADED /\ diagnostic = NoValue /\ files = <<>> /\ objective = NoValue

\* arguments.output_filename and the log file main derives from it
output_filename == "output-solved.json"
logfile == "output-solved.log"

\* os.remove(path) when the file exists
remove(fs, path) == [ name \in DOMAIN fs \ {path} |-> fs[name] ]

\* logging.info / logging.error with the handler of
\* logging.basicConfig(filename=logfile)
logging(fs, line) ==
    [ name \in DOMAIN fs \cup {logfile} |->
        IF name # logfile THEN fs[name]
        ELSE IF logfile \in DOMAIN fs THEN Append(fs[logfile], line) ELSE <<line>> ]

\* main, logging set-up and step 1: data = DoctorSchedule(input_filename);
\* data.validate()
FetchData ==
    /\ pc = "start"
    /\ rawdata' = _process_data(rawdata).rawdata
    /\ preassigned' = _process_data(rawdata).preassigned
    /\ pc' = IF validate(rawdata') THEN "fetched" ELSE "error"
    /\ LET started == logging(logging(remove(files, logfile), "INFO:Starting the scheduling process..."),
                              "INFO:Data fetched successfully")
       IN  files' = IF validate(rawdata') THEN started
                    ELSE logging(started, "ERROR:Error while fetching data")
    /\ UNCHANGED <<requirements, solution, status, diagnostic, calVars, splitVars, deriveVars, objective>>

\* main, step 1 continued: data.load_requirements(requests); data.validate()
LoadRequirements ==
    /\ pc = "fetched"
    /\ LET loaded == load_requirements(rawdata, preassigned, requirements)
       IN  /\ rawdata' = loaded.rawdata
           /\ preassigned' = loaded.preassigned
           /\ pc' = IF loaded.ok /\ validate(loaded.rawdata) THEN "ready" ELSE "error"
           /\ files' = IF loaded.ok /\ validate(loaded.rawdata) THEN files
                        ELSE logging(files, "ERROR:Error while fetching data")
    /\ UNCHANGED <<requirements, solution, status, diagnostic, calVars, splitVars, deriveVars, objective>>

\* Model.optimize(): the Status and SolCount it can end with. The search ends
\* with the optimum, with the proof that there is none, or at the time limit,
\* with or without an incumbent.
optimize(feasible) ==
    IF feasible
    THEN { [code |-> "OPTIMAL", SolCount |-> 1],
           [code |-> "TIME_LIMIT", SolCount |-> 1],
           [code |-> "TIME_LIMIT", SolCount |-> 0] }
    ELSE { [code |-> "INFEASIBLE", SolCount |-> 0],
           [code |-> "TIME_LIMIT", SolCount |-> 0] }

\* AllocationModel.solve(): True only with Status OPTIMAL
solve(st) == st.code = "OPTIMAL"

\* AllocationModel.print(*args): print(self) takes no argument, and
\* _print_schedule subscripts self.solution, which is None until _get_solution
\* has run
print(st, args) ==
    IF args # <<>> \/ ~solve(st) THEN "TypeError" ELSE "printed"

\* AllocationModel.debug_constraints(): the ValueError it raises, "returned"
\* when it raises none
debug_constraints(raw, st) ==
    LET charge == potential_charge_doctors(raw)
        cardiac == potential_cardiac_doctors(raw)
    IN  IF st.code = "OPTIMAL" THEN "returned"
        ELSE IF \E day \in Range(days(raw)) : Cardinality(charge[day]) < 1
        THEN "There are less than 1 doctor(s) in 'potential_charge_doctors'"
        ELSE IF \E day \in Range(days(raw)) : Cardinality(cardiac[day]) < 1
        THEN "There are less than 1 doctor(s) in 'potential_cardiac_doctors'"
        ELSE IF \E day \in Range(days(raw)) :
                    /\ Cardinality(charge[day]) = 1 /\ Cardinality(cardiac[day]) = 1
                    /\ charge[day] = cardiac[day]
        THEN "The same doctor is listed as the only option for both charge and cardiac"
        ELSE IF \E day \in Range(days(raw)) : Cardinality(charge[day] \cup cardiac[day]) < 2
        THEN "The union of doctors is less than 2"
        ELSE "returned"

\* main, step 2: model = AllocationModel(data); model.solve()
Solve ==
    /\ pc = "ready"
    /\ status' \in optimize(OptimalSolutions # {})
    /\ IF solve(status')
       THEN solution' \in OptimalSolutions /\ pc' = "solved"
       ELSE UNCHANGED solution /\ pc' = "no_solution"
    /\ files' = logging(files, "INFO:Setting up the scheduling model")
    /\ UNCHANGED <<rawdata, requirements, preassigned, diagnostic, calVars, splitVars, deriveVars, objective>>

\* main, step 3: print("No solution found"); model.print();
\* model.print(logfile); model.debug_constraints(); return
ReportNoSolution ==
    /\ pc = "no_solution"
    /\ IF print(status, <<>>) = "printed" /\ print(status, <<"logfile">>) = "printed"
       THEN diagnostic' = debug_constraints(rawdata, status) /\ pc' = "ended"
       ELSE UNCHANGED diagnostic /\ pc' = "crashed"
    /\ UNCHANGED <<status, files, calVars, splitVars, schedVars, deriveVars, objective>>

\* main, step 4: model.print(); model.print(logfile);
\* model.save(output_filename). AllocationModel defines no save.
OutputResults ==
    /\ pc = "solved"
    /\ IF print(status, <<>>) = "printed" /\ print(status, <<"logfile">>) = "printed"
       THEN pc' = "AttributeError"
       ELSE pc' = "crashed"
    /\ UNCHANGED <<calVars, splitVars, schedVars, deriveVars, runVars, objective>>

Next == FetchData \/ LoadRequirements \/ Solve \/ ReportNoSolution \/ OutputResults

Spec == Init /\ [][Next]_vars

-----------------------------------------------------------------------------
(* The objective of the allocation model, on the values its three           *)
(* objectives take. equity_obj counts the doctors with y = 1;               *)
(* cardiac_charge_obj is max_w + max_z + max_wz, three continuous variables *)
(* that the constraints bound from below only; priority_charge_obj counts   *)
(* at most one charge doctor a day.                                         *)

MaxCardiacCharge == 12

ObjectiveValues ==
    [ equity_obj : 0..Len(everyone), cardiac_charge_obj : 0..MaxCardiacCharge,
      priority_charge_obj : 0..NumDays ]

ObjInit ==
    /\ pc = "objective"
    /\ objective \in { [ equity_obj |-> v.equity_obj, cardiac_charge_obj |-> v.cardiac_charge_obj,
                         priority_charge_obj |-> v.priority_charge_obj, total_obj |-> 0 ] :
                       v \in ObjectiveValues }
    /\ input_date = <<0, 0, 0>> /\ special = {} /\ workday_result = <<FALSE, NoValue>>
    /\ data = {} /\ todo = <<>> /\ split_year = 0 /\ weekly_data = {}
    /\ rawdata = NoValue /\ requirements = NoValue /\ preassigned = NoValue
    /\ solution = NoValue
    /\ weeks = NoValue /\ new_structure = NoValue
    /\ status = LOADED /\ diagnostic = NoValue /\ files = <<>>

\* _set_objective: total_obj of a solution
SetObjective ==
    /\ pc = "objective"
    /\ objective' = [objective EXCEPT !.total_obj =
                        weighted_obj(objective.equity_obj, objective.cardiac_charge_obj,
                                     objective.priority_charge_obj)]
    /\ pc' = "objective_set"
    /\ UNCHANGED <<calVars, splitVars, schedVars, deriveVars, runVars>>

ObjNext == SetObjective

SpecObj == ObjInit /\ [][ObjNext]_vars

\* C26: between any two feasible solutions of the same week, the one with
\* strictly larger equity term has strictly larger total objective whatever
\* their role_concentration and charge_preference values, and among solutions
\* of equal equity the one with strictly smaller role_concentration has
\* strictly larger total whatever their charge_preference values.
C26_LexicographicObjective ==
    pc = "objective_set" =>
        \A other \in ObjectiveValues :
            LET total == weighted_obj(other.equity_obj, other.cardiac_charge_obj,
                                      other.priority_charge_obj)
            IN  /\ objective.equity_obj > other.equity_obj => objective.total_obj > total
                /\ ( /\ objective.equity_obj = other.equity_obj
                     /\ objective.cardiac_charge_obj < other.cardiac_charge_obj )
                      => objective.total_obj > total

-----------------------------------------------------------------------------
(* Shift deriver: data/derive_shifts_from_schedule.py                      *)
(* A snapshot maps a date to its AM and PM shift records; a date with one  *)
(* shift key has the same record under both.                               *)

Min(S) == CHOOSE m \in S : \A n \in S : m <= n

\* is_holiday(date)
is_holiday(date) == ~is_workday(YearOf(date), date, {})[1]

\* WeeklySchedule.__init__: week[date] for the dates of the previous, the
\* current and the next week
WeeklySchedule(start_date) ==
    [ date \in generate_dates(start_date - 7, start_date + 13) |->
        IF is_holiday(date) THEN WEEKEND ELSE WORKDAY ]

\* a search that keeps the last day of the type in the week
week_next_day_type_last(week, week_start, given_date, given_day_type) ==
    LET found == { date \in generate_dates(week_start, week_start + 6) :
                     date > given_date /\ week[date] = given_day_type }
    IN  IF found = {} THEN 0 ELSE Max(found)

\* WeeklySchedule.get_next_day_type for the week that starts at week_start:
\* the first later date of the given type, 0 for None
week_next_day_type(week, week_start, given_date, given_day_type) ==
    LET found == { date \in generate_dates(week_start, week_start + 6) :
                     date > given_date /\ week[date] = given_day_type }
    IN  IF found = {} THEN 0 ELSE Min(found)

\* a search that does not start from the end of the week
week_prev_day_type_first(week, week_start, given_date, given_day_type) ==
    LET found == { date \in generate_dates(week_start, week_start + 6) :
                     date < given_date /\ week[date] = given_day_type }
    IN  IF found = {} THEN 0 ELSE Min(found)

\* WeeklySchedule.get_prev_day_type
week_prev_day_type(week, week_start, given_date, given_day_type) ==
    LET found == { date \in generate_dates(week_start, week_start + 6) :
                     date < given_date /\ week[date] = given_day_type }
    IN  IF found = {} THEN 0 ELSE Max(found)

\* get_next_day_type(given_date, this_week, next_week, given_day_type): the
\* date found; its values are the snapshot's at that date
get_next_day_type(week, start_date, given_date, given_day_type) ==
    IF week_next_day_type(week, start_date, given_date, given_day_type) # 0
    THEN week_next_day_type(week, start_date, given_date, given_day_type)
    ELSE week_next_day_type(week, start_date + 7, given_date, given_day_type)

\* get_prev_day_type(given_date, this_week, prev_week, given_day_type)
get_prev_day_type(week, start_date, given_date, given_day_type) ==
    IF week_prev_day_type(week, start_date, given_date, given_day_type) # 0
    THEN week_prev_day_type(week, start_date, given_date, given_day_type)
    ELSE week_prev_day_type(week, start_date - 7, given_date, given_day_type)

\* x if cond else None
OrNone(x, cond) == IF cond THEN x ELSE NoValue

\* the candidates with the late call of the previous workday taken from its
\* first call
candidates_first_call(snap, week, start_date, date) ==
    LET next_weekday == get_next_day_type(week, start_date, date, WORKDAY)
        prev_weekday == get_prev_day_type(week, start_date, date, WORKDAY)
        is_tomorrow == next_weekday = date + 1
        is_yesterday == prev_weekday = date - 1
        next_weekend == snap[get_next_day_type(week, start_date, date, WEEKEND)]
        prev_weekend == snap[get_prev_day_type(week, start_date, date, WEEKEND)]
        post_call == IF ~is_yesterday THEN prev_weekend.PM.Call1 ELSE snap[prev_weekday].PM.Call1
        post_late == IF ~is_yesterday THEN prev_weekend.PM.Call2 ELSE snap[prev_weekday].PM.Call1
    IN  [ pre_call |-> IF ~is_tomorrow THEN next_weekend.AM.Call1 ELSE snap[next_weekday].PM.Call1,
          pre_holiday |-> IF ~is_tomorrow THEN next_weekend.AM.Call2 ELSE NoValue,
          post_call |-> post_call,
          post_late |-> post_late,
          post_holiday |-> IF ~is_yesterday /\ prev_weekend.AM.Call1 \notin {post_call, post_late}
                           THEN prev_weekend.AM.Call1 ELSE NoValue ]

\* generate_new_structure, the general case of a weekday: pre_call,
\* pre_holiday, post_call, post_late and post_holiday as the neighbouring days
\* give them, before the tie-breakers
candidates(snap, week, start_date, date) ==
    LET next_weekday == get_next_day_type(week, start_date, date, WORKDAY)
        prev_weekday == get_prev_day_type(week, start_date, date, WORKDAY)
        is_tomorrow == next_weekday = date + 1
        is_yesterday == prev_weekday = date - 1
        next_weekend == snap[get_next_day_type(week, start_date, date, WEEKEND)]
        prev_weekend == snap[get_prev_day_type(week, start_date, date, WEEKEND)]
        post_call == IF ~is_yesterday THEN prev_weekend.PM.Call1 ELSE snap[prev_weekday].PM.Call1
        post_late == IF ~is_yesterday THEN prev_weekend.PM.Call2 ELSE snap[prev_weekday].PM.Call2
    IN  [ pre_call |-> IF ~is_tomorrow THEN next_weekend.AM.Call1 ELSE snap[next_weekday].PM.Call1,
          pre_holiday |-> IF ~is_tomorrow THEN next_weekend.AM.Call2 ELSE NoValue,
          post_call |-> post_call,
          post_late |-> post_late,
          post_holiday |-> IF ~is_yesterday /\ prev_weekend.AM.Call1 \notin {post_call, post_late}
                           THEN prev_weekend.AM.Call1 ELSE NoValue ]

\* generate_new_structure: result[weekday_name] for one date
generate_new_structure(snap, week, start_date, date) ==
    LET day_type == week[date]
        today == snap[date].PM
        admin == [ i \in 1..today.Admin |-> ADMIN_IDENTIFIER ]
        on_call == today.Call1
        on_late == today.Call2
        derived == candidates(snap, week, start_date, date)
        pre_call0 == derived.pre_call
        pre_holiday == derived.pre_holiday
        post_call == derived.post_call
        post_late == derived.post_late
        post_holiday == derived.post_holiday
        pre_call1 == IF post_late = pre_call0 THEN NoValue ELSE pre_call0
        pre_call == OrNone(pre_call1, pre_call1 \notin {post_call, post_late, post_holiday})
        offsite_today == SelectSeq(today.Offsite,
                            LAMBDA doc : doc \in Range(admin) \/ doc \notin {on_call, on_late})
        off == Range(offsite_today)
        call == {on_call, on_late}
    IN  IF day_type = WEEKEND
        THEN [ OnCall |-> on_call, OnLate |-> on_late, PostCall |-> NoValue,
               PostHoliday |-> NoValue, PostLate |-> NoValue, PreCall |-> NoValue,
               PreHoliday |-> NoValue, Admin |-> admin, Offsite |-> offsite_today,
               Day |-> day_type, Unassigned |-> <<>> ]
        ELSE [ OnCall |-> on_call, OnLate |-> on_late,
               PostCall |-> OrNone(post_call, post_call \notin off),
               PostHoliday |-> OrNone(post_holiday,
                                  post_holiday # NoValue /\ post_holiday \notin off
                                     /\ post_holiday \notin call),
               PostLate |-> OrNone(post_late, post_late \notin off /\ post_late \notin call),
               PreCall |-> OrNone(pre_call, pre_call \notin off /\ pre_call \notin call),
               PreHoliday |-> OrNone(pre_holiday, pre_holiday \notin off /\ pre_holiday \notin call),
               Admin |-> admin, Offsite |-> offsite_today,
               Day |-> day_type, Unassigned |-> <<>> ]

\* find_unassigned, for one day of the schedule: ok is FALSE when the
\* assertion `assigned in staff.everyone` fails. Warning(...) for the
\* placeholder builds an exception object and reports nothing.
find_unassigned(day) ==
    LET assigned_doctors ==
            { day.OnCall, day.OnLate, day.PostCall, day.PostHoliday, day.PostLate,
              day.PreCall, day.PreHoliday } \cup Range(day.Admin) \cup Range(day.Offsite)
        named == assigned_doctors \ {NoValue, ADMIN_IDENTIFIER, unknown}
        unassigned == SelectSeq(everyone, LAMBDA doc : doc \notin named)
    IN  IF day.Day = WEEKEND THEN [ok |-> TRUE, day |-> [day EXCEPT !.Unassigned = <<>>]]
        ELSE IF named \subseteq Range(everyone)
        THEN [ok |-> TRUE, day |-> [day EXCEPT !.Unassigned = unassigned]]
        ELSE [ok |-> FALSE, day |-> day]

\* main: transpose_dict(new_structure) with Doctors and Period attached, as
\* DoctorSchedule reads it. The deriver writes the transition roles as PostCall,
\* PostHoliday, PostLate and PreCall where TURN_ORDER has Post-Call,
\* Post-Holiday, Post-Late and Pre-Call; a role is read here under its
\* TURN_ORDER name. PreHoliday has no entry in TURN_ORDER.
transpose_dict(schedule, start_date) ==
    LET col(field) == [ d \in 1..7 |-> schedule[start_date + d - 1][field] ]
    IN  ("Period" :> start_date) @@ ("Order" :> [ d \in 1..7 |-> d ])
        @@ ("Doctors" :> everyone) @@ ("Day" :> col("Day"))
        @@ ("OnCall" :> col("OnCall")) @@ ("OnLate" :> col("OnLate"))
        @@ ("Post-Call" :> col("PostCall")) @@ ("Post-Holiday" :> col("PostHoliday"))
        @@ ("Post-Late" :> col("PostLate")) @@ ("Pre-Call" :> col("PreCall"))
        @@ ("PreHoliday" :> col("PreHoliday"))
        @@ ("Unassigned" :> col("Unassigned")) @@ ("Admin" :> col("Admin"))
        @@ ("Offsite" :> col("Offsite"))

MaxAdminCount == 1

\* the Mondays of the weeks examined: 2019-07-01 (Independence Day on the
\* Thursday) and 2019-07-08
WeekStarts == { Ymd2Ord(2019, 7, 1), Ymd2Ord(2019, 7, 8) }

\* the snapshots of the previous, the current and the next week: the call rota
\* turns by one doctor a day, the second call is l doctors ahead of the first,
\* the AM shift of a Saturday or Sunday is s doctors ahead of its PM shift
Snapshot(start_date, r, l, s, off, a) ==
    [ date \in (start_date - 7)..(start_date + 13) |->
        LET k == date - (start_date - 7)
            pm == [ Call1 |-> Doc(r + k), Call2 |-> Doc(r + k + l), Admin |-> a, Offsite |-> off ]
            am == [ Call1 |-> Doc(r + k + s), Call2 |-> Doc(r + k + s + l),
                    Admin |-> a, Offsite |-> off ]
        IN  [ AM |-> IF Weekday(date) >= 5 THEN am ELSE pm, PM |-> pm ] ]

WeekInputs ==
    { [ start |-> start_date, week |-> WeeklySchedule(start_date),
        snap |-> Snapshot(start_date, r, l, s, off, a) ] :
        start_date \in WeekStarts, r \in 0..(Len(everyone) - 1), l \in {1, 3, 4}, s \in {0, 2, 4},
        off \in {<<>>, <<"EE">>, <<"AA", "BB">>, <<unknown>>, <<"ZZ">>}, a \in 0..MaxAdminCount }

\* args.output and the two companions main derives from it
filename == "2019-week27.json"
illegal == "2019-week27_ILLEGAL.json"
err_filename == "2019-week27.err"

\* what an earlier run for the same output has left: nothing, a valid week,
\* or an invalid week with its errors
StaleFile == ("Period" :> 0)
StaleFiles ==
    { <<>>, (filename :> StaleFile),
      (illegal :> StaleFile) @@ (err_filename :> << <<"Missing doctors found on", 1>> >>) }

\* write_json(data, path, overwrite=True) and open(path, 'w')
write(fs, path, content) ==
    [ name \in DOMAIN fs \cup {path} |-> IF name = path THEN content ELSE fs[name] ]

\* os.rename with the source kept
rename_keep(fs, src, dst) == write(fs, dst, fs[src])

\* os.rename(src, dst)
rename(fs, src, dst) == remove(write(fs, dst, fs[src]), src)

DeriveInit ==
    /\ status = LOADED /\ diagnostic = NoValue /\ files \in StaleFiles /\ objective = NoValue
    /\ pc = "derive"
    /\ weeks \in WeekInputs
    /\ new_structure = NoValue
    /\ rawdata = NoValue /\ requirements = NoValue /\ preassigned = NoValue
    /\ solution = NoValue
    /\ input_date = <<0, 0, 0>> /\ special = {} /\ workday_result = <<FALSE, NoValue>>
    /\ data = {} /\ todo = <<>> /\ split_year = 0 /\ weekly_data = {}

\* main: new_structure = generate_new_structure(week_current, week_before, ...)
GenerateNewStructure ==
    /\ pc = "derive"
    /\ new_structure' = [ date \in generate_dates(weeks.start, weeks.start + 6) |->
                            generate_new_structure(weeks.snap, weeks.week, weeks.start, date) ]
    /\ pc' = "generated"
    /\ UNCHANGED <<weeks, calVars, splitVars, schedVars, runVars, objective>>

\* main: new_structure = find_unassigned(new_structure, doctors); the days
\* are visited in date order, up to the first failed assertion
FindUnassigned ==
    /\ pc = "generated"
    /\ LET found == [ date \in DOMAIN new_structure |-> find_unassigned(new_structure[date]) ]
           reached(date) == \A before \in DOMAIN new_structure : before < date => found[before].ok
       IN  /\ new_structure' = [ date \in DOMAIN new_structure |->
                                   IF reached(date) THEN found[date].day ELSE new_structure[date] ]
           /\ pc' = IF \A date \in DOMAIN new_structure : found[date].ok
                    THEN "unassigned_found" ELSE "AssertionError"
    /\ UNCHANGED <<weeks, calVars, splitVars, schedVars, runVars, objective>>

\* main: the stale companions are removed, the week is written to the output,
\* schedule = DoctorSchedule(new_structure). The run has no --requests.
LoadDerived ==
    /\ pc = "unassigned_found"
    /\ files' = write(remove(remove(files, illegal), err_filename), filename,
                      transpose_dict(new_structure, weeks.start))
    /\ rawdata' = _process_data(transpose_dict(new_structure, weeks.start)).rawdata
    /\ preassigned' = _process_data(transpose_dict(new_structure, weeks.start)).preassigned
    /\ pc' = "loaded"
    /\ UNCHANGED <<requirements, solution, status, diagnostic, deriveVars, calVars, splitVars, objective>>

\* main: valid, errors = schedule.validate(); the errors of an invalid week
\* are written to the .err file and its file is renamed to ..._ILLEGAL.json
ValidateDerived ==
    /\ pc = "loaded"
    /\ IF validate(rawdata)
       THEN pc' = "derived_valid" /\ UNCHANGED files
       ELSE /\ pc' = "derived_illegal"
            /\ files' = rename(write(files, err_filename, validate_errors(rawdata)), filename, illegal)
    /\ UNCHANGED <<status, diagnostic, calVars, splitVars, schedVars, deriveVars, objective>>

DeriveNext == GenerateNewStructure \/ FindUnassigned \/ LoadDerived \/ ValidateDerived

SpecDerive == DeriveInit /\ [][DeriveNext]_vars

-----------------------------------------------------------------------------
(* The diagnostic of an unsolved model, statement by statement:             *)
(* AllocationModel.debug_constraints called on a model that optimize() has  *)
(* left with any of its statuses. main reaches no such call (print raises   *)
(* before it), so the method is examined on its own.                        *)

temp_file == "data/temp_iis.ilp"

IISInit ==
    /\ pc = "debug_constraints"
    /\ \E file \in InputFiles :
          /\ rawdata = _process_data(file).rawdata
          /\ preassigned = _process_data(file).preassigned
    /\ status \in optimize(TRUE) \cup optimize(FALSE)
    /\ requirements = NoValue /\ solution = NoValue
    /\ input_date = <<0, 0, 0>> /\ special = {} /\ workday_result = <<FALSE, NoValue>>
    /\ data = {} /\ todo = <<>> /\ split_year = 0 /\ weekly_data = {}
    /\ weeks = NoValue /\ new_structure = NoValue
    /\ diagnostic = NoValue /\ files = <<>> /\ objective = NoValue

\* if self.m.status == GRB.OPTIMAL: return; self.m.computeIIS(). Gurobi
\* raises GurobiError when the model it is asked about is not infeasible,
\* which a search stopped at the time limit has not settled.
ComputeIIS ==
    /\ pc = "debug_constraints"
    /\ IF status.code = "OPTIMAL"
       THEN pc' = "debug_ended" /\ diagnostic' = "returned"
       ELSE IF status.code = "INFEASIBLE"
       THEN pc' = "iis_computed" /\ UNCHANGED diagnostic
       ELSE \/ pc' = "iis_computed" /\ UNCHANGED diagnostic
            \/ pc' = "debug_raised" /\ diagnostic' = "GurobiError"
    /\ UNCHANGED <<status, files, calVars, splitVars, schedVars, deriveVars, objective>>

\* self.m.write(temp_file)
WriteIIS ==
    /\ pc = "iis_computed"
    /\ files' = write(files, temp_file, <<"Subject To">>)
    /\ pc' = "iis_written"
    /\ UNCHANGED <<status, diagnostic, calVars, splitVars, schedVars, deriveVars, objective>>

\* read_and_remove_file(temp_file): open and f.read() inside the with block,
\* os.remove after it. An error of open or read (OSError,
\* UnicodeDecodeError) leaves the function before os.remove.
read_and_remove_file(fs, filepath, read) ==
    IF read THEN [ok |-> TRUE, files |-> remove(fs, filepath)]
    ELSE [ok |-> FALSE, files |-> fs]

ReadAndRemoveFile ==
    /\ pc = "iis_written"
    /\ \E read \in BOOLEAN :
          LET done == read_and_remove_file(files, temp_file, read)
          IN  /\ files' = done.files
              /\ pc' = IF done.ok THEN "iis_read" ELSE "debug_raised"
              /\ diagnostic' = IF done.ok THEN diagnostic ELSE "OSError"
    /\ UNCHANGED <<status, calVars, splitVars, schedVars, deriveVars, objective>>

\* print(error_message), the days the text names, and the checks of the
\* potential charge and cardiac doctors with the ValueError they raise
CheckOptions ==
    /\ pc = "iis_read"
    /\ diagnostic' = debug_constraints(rawdata, status)
    /\ pc' = IF diagnostic' = "returned" THEN "debug_ended" ELSE "debug_raised"
    /\ UNCHANGED <<status, files, calVars, splitVars, schedVars, deriveVars, objective>>

IISNext == ComputeIIS \/ WriteIIS \/ ReadAndRemoveFile \/ CheckOptions

SpecIIS == IISInit /\ [][IISNext]_vars

-----------------------------------------------------------------------------
(* Properties of a solved week                                              *)

Solved == pc = "solved"
Workdays == Range(weekdays(rawdata))

\* the label a doctor carries on a day: the TURN_ORDER fields that list them
LabelsOf(doctor, day) ==
    { i \in DOMAIN TURN_ORDER : doctor \in Range(Items(rawdata, TURN_ORDER[i], day)) }

\* the doctors of working(day) that take part in the peel order
PeelDoctors(day) == Range(working(rawdata)[day]) \ Range(Admin(rawdata)[day])

\* C1: in every solution, on every workday the peel positions held by the
\* working physicians are exactly 1..n for the n physicians of the peel order:
\* each holds exactly one position, no two share one, and no position of the
\* range is left empty.
C1_PeelPartition ==
    Solved =>
        \A day \in Workdays :
            /\ \A a \in PeelDoctors(day) : Cardinality(solution.x[<<a, day>>]) = 1
            /\ \A a, b \in PeelDoctors(day) :
                  a # b => solution.x[<<a, day>>] \cap solution.x[<<b, day>>] = {}
            /\ UNION { solution.x[<<a, day>>] : a \in PeelDoctors(day) }
                  = 1..Cardinality(PeelDoctors(day))

\* C2: on every workday of a solved schedule, a physician whose label comes
\* earlier in TURN_ORDER (Admin apart) has a strictly smaller peel position than
\* a physician whose label comes later; a solver-placed Unassigned physician
\* sits above the transition roles and below OnLate and OnCall.
C2_TurnOrderRespected ==
    Solved =>
        \A day \in Workdays : \A a, b \in PeelDoctors(day) :
            \A la \in LabelsOf(a, day), lb \in LabelsOf(b, day) :
                (la < lb /\ TURN_ORDER[lb] # "Admin")
                    => \A pa \in solution.x[<<a, day>>], pb \in solution.x[<<b, day>>] : pa < pb

\* C3: in every solution each workday has exactly one physician with z = 1
\* among all charge-capable physicians, exactly one with w = 1 among all
\* cardiac-capable physicians, and the two are different physicians.
C3_OneChargeOneCardiac ==
    Solved =>
        \A day \in Workdays :
            /\ Cardinality(solution.z[day]) = 1
            /\ Cardinality(solution.w[day]) = 1
            /\ solution.z[day] \cap solution.w[day] = {}

\* C4: in every solution no physician is charge on two consecutive workdays;
\* two workdays are consecutive when no other workday lies between them, so a
\* holiday or weekend day in between does not separate them.
C4_NoChargeOnConsecutiveWorkdays ==
    Solved =>
        \A i \in 1..(Len(weekdays(rawdata)) - 1) :
            solution.z[weekdays(rawdata)[i]] \cap solution.z[weekdays(rawdata)[i + 1]] = {}

\* C5: on every workday the physicians whose charge variable is 1 belong to
\* potential_charge(d) = ({OnCall, OnLate} + Unassigned) & charge-capable and
\* those whose cardiac variable is 1 belong to potential_cardiac(d) =
\* {OnCall, OnLate} & cardiac-capable; nobody outside these sets has the role
\* variable set to 1 for that day.
C5_RolesFromPotentialSets ==
    Solved =>
        \A day \in Workdays :
            /\ solution.z[day] \subseteq
                  ({rawdata["OnCall"][day], rawdata["OnLate"][day]}
                      \cup Range(rawdata["Unassigned"][day])) \cap charge_doctors
            /\ solution.w[day] \subseteq
                  {rawdata["OnCall"][day], rawdata["OnLate"][day]} \cap cardiac_doctors

\* the number of weekdays on which a doctor works
weekdays_worked(doctor) ==
    Cardinality({ day \in Workdays : doctor \in Range(working(rawdata)[day]) })

Abs(n) == IF n < 0 THEN -n ELSE n

C8_AdminScore ==
    Solved =>
        \A a \in working_doctors :
            /\ total_order(solution.x, a)
                 = SumSeq([ d \in DOMAIN days(rawdata) |->
                              SumOver(solution.x[<<a, days(rawdata)[d]>>],
                                      [ order \in model_orders |-> order ])
                                + 8 * Count(Admin(rawdata)[days(rawdata)[d]], a) ])
            /\ total_order(solution.x, a) = get_points_per_doctor(solution.x, a)

\* C6: for every workday d of a week produced by the shift deriver and loaded
\* into the schedule model, offsite(d) and working(d) are disjoint and every
\* active physician appears in exactly one of them, exactly once.
C6_OffsiteDisjointness ==
    pc \in {"loaded", "derived_valid", "derived_illegal"} =>
        \A day \in Range(weekdays(rawdata)) :
            /\ Range(offsite(rawdata)[day]) \cap Range(working(rawdata)[day]) = {}
            /\ \A doc \in Range(everyone) :
                  Count(working(rawdata)[day] \o offsite(rawdata)[day], doc) = 1

\* the days on which the potential sets leave no choice of two physicians
TooFewOptions(raw) ==
    { day \in Range(weekdays(raw)) :
        \/ potential_charge_doctors(raw)[day] = {}
        \/ potential_cardiac_doctors(raw)[day] = {}
        \/ Cardinality(potential_charge_doctors(raw)[day]
                          \cup potential_cardiac_doctors(raw)[day]) < 2 }

\* C11: validate() rejects every schedule in which some workday has an empty
\* potential-charge set, an empty potential-cardiac set or a union of the two
\* with fewer than 2 physicians, so no such schedule reaches the optimizer.
C11_ValidateRejectsTooFewOptions ==
    pc \in {"fetched", "ready", "solved", "no_solution"} => TooFewOptions(rawdata) = {}

\* the doctors an Admin overlay names for a day
NamedAdmin(req, day) == Range(req["Admin"][day]) \ {ADMIN_IDENTIFIER}

\* C12: after load_requirements with an Admin overlay for day d that lists
\* physicians, each listed physician is in neither Unassigned(d) nor
\* Offsite(d), is an Admin assignment of d worth 8 points, and the Unassigned
\* range of d and every later position of d shrink by the number of
\* physicians taken out of the pool.
C12_AdminOverlay ==
    [][ (pc = "fetched" /\ load_requirements(rawdata, preassigned, requirements).ok) =>
          \A day \in Range(days(rawdata)) :
            NamedAdmin(requirements, day) # {} =>
              LET listed == NamedAdmin(requirements, day)
                  taken == Cardinality(listed \cap Range(rawdata["Unassigned"][day]))
                  first == current_tally(rawdata, 5, day)
                  after == first + Len(rawdata["Unassigned"][day])
              IN  /\ \A a \in listed :
                        /\ a \notin Range(rawdata'["Unassigned"][day])
                        /\ a \notin Range(rawdata'["Offsite"][day])
                        /\ [doctor |-> a, points |-> <<8, 8>>, shift |-> "Admin"]
                              \in Range(assignments(rawdata', "Admin", day))
                  /\ Len(rawdata'["Unassigned"][day]) = Len(rawdata["Unassigned"][day]) - taken
                  /\ \A k \in DOMAIN assignments(rawdata', "Unassigned", day) :
                        assignments(rawdata', "Unassigned", day)[k].points
                            = <<first, after - taken - 1>>
                  /\ \A item \in Range(preassigned[day]) :
                        << IF item[1] >= after THEN item[1] - taken ELSE item[1], item[2] >>
                            \in Range(preassigned'[day])
      ]_vars

\* an overlay that names a doctor has been loaded and validated: the doctor
\* holds the admin slot of the first day and one doctor is left in the pool
C12_Witness ==
    /\ pc = "ready"
    /\ NamedAdmin(requirements, 1) # {}
    /\ Admin(rawdata)[1] = requirements["Admin"][1]
    /\ Len(rawdata["Unassigned"][1]) = 1

\* the Unassigned range of a day: the positions its pool can take
UnassignedRange(raw, day) ==
    current_tally(raw, 5, day)..(current_tally(raw, 5, day) + Len(raw["Unassigned"][day]) - 1)

\* the Whine pins of a day that name an Unassigned physician and a position
\* inside the day's Unassigned range
PinsInRange(day) ==
    { pin \in Range(requirements["Whine"][day]) :
        pin[1] \in Range(rawdata["Unassigned"][day]) /\ pin[2] \in UnassignedRange(rawdata, day) }

\* C13: when the Whine overlay pins an Unassigned physician g of day d to a
\* position p inside that day's Unassigned range, the program remains feasible
\* and every solution places g at p, the other Unassigned physicians of d
\* filling exactly the remaining positions of the range.
C13_PinInsideRange ==
    \A day \in DOMAIN requirements["Whine"] :
        (pc \in {"ready", "solved"} /\ PinsInRange(day) # {}) =>
            /\ OptimalSolutions # {}
            /\ pc = "solved" =>
                  /\ \A pin \in PinsInRange(day) : solution.x[<<pin[1], day>>] = {pin[2]}
                  /\ UNION { solution.x[<<doc, day>>] : doc \in Range(rawdata["Unassigned"][day]) }
                        = UnassignedRange(rawdata, day)

\* rawdata and preassigned once the Admin overlay of the requests is applied
AfterAdminOverlay ==
    LET overlay == AdminOverlay([rawdata |-> rawdata, reprocess |-> FALSE], requirements, 1)
    IN  IF overlay.reprocess THEN _process_data(overlay.rawdata)
        ELSE [rawdata |-> overlay.rawdata, preassigned |-> preassigned]

\* the k-th Whine entry of a day is accepted: its position is not a key of
\* preassigned(day), the earlier pins of the day included, and its physician
\* is in working(day)
PinAccepted(day, k) ==
    LET pins == requirements["Whine"][day]
    IN  /\ pins[k][2] \notin Keys(AfterAdminOverlay.preassigned[day])
                                  \cup { pins[j][2] : j \in 1..(k - 1) }
        /\ pins[k][1] \in Range(working(AfterAdminOverlay.rawdata)[day])

\* the first Whine entries that load_requirements meets and has to reject
FirstRejected ==
    { e \in UNION { { <<day, k>> : k \in DOMAIN requirements["Whine"][day] } :
                      day \in DOMAIN requirements["Whine"] } :
        /\ ~PinAccepted(e[1], e[2])
        /\ \A j \in 1..(e[2] - 1) : PinAccepted(e[1], j)
        /\ \A day \in 1..(e[1] - 1) :
              \A j \in DOMAIN requirements["Whine"][day] : PinAccepted(day, j) }

\* C14: load_requirements fails on a Whine entry whose position is already a
\* key of preassigned(d) or whose physician is not in working(d), and the
\* rejected pin is not added to preassigned(d): the day keeps the entries it
\* had, followed by the pins accepted before the rejected one.
C14_RejectedPin ==
    [][ (pc = "fetched" /\ FirstRejected # {}) =>
          /\ pc' = "error"
          /\ \A e \in FirstRejected :
                preassigned'[e[1]] =
                    AfterAdminOverlay.preassigned[e[1]]
                        \o [ j \in 1..(e[2] - 1) |->
                               << requirements["Whine"][e[1]][j][2], requirements["Whine"][e[1]][j][1] >> ] ]_vars

\* a load has failed on the second pin of a day after its first was stored
C14_Witness ==
    /\ pc = "error"
    /\ Len(requirements["Whine"][1]) = 2
    /\ <<2, "DD">> \in Range(preassigned[1])
    /\ <<2, "AA">> \notin Range(preassigned[1])

\* C15: the core treats a solver run as failed exactly when the solver ends
\* without any feasible solution (infeasible, or time limit with no incumbent);
\* a run that stops at the time limit holding a feasible solution is read back
\* like an optimal one.
C15_FailedIffNoSolution ==
    /\ pc = "no_solution" => status.SolCount = 0
    /\ pc = "solved" => status.SolCount > 0
    /\ pc \in {"solved", "no_solution"} /\ status.code = "TIME_LIMIT" /\ status.SolCount > 0
          => pc = "solved"

\* the run of main is over
Ended == pc \in {"ended", "crashed", "AttributeError"}

\* C16: in every run of the optimize pipeline the solved-schedule file is
\* written only after solve() has returned success; when solve() reports no
\* solution, debug_constraints is executed and the run ends without writing
\* the solved-schedule file.
C16_DiagnosticOnNoSolution ==
    /\ output_filename \in DOMAIN files => solve(status)
    /\ (Ended /\ ~solve(status)) =>
          /\ diagnostic = debug_constraints(rawdata, status)
          /\ output_filename \notin DOMAIN files

\* the workdays whose potential charge and potential cardiac doctors are one
\* and the same single physician
SingleOption(raw) ==
    { day \in Range(weekdays(raw)) :
        /\ Cardinality(potential_charge_doctors(raw)[day]) = 1
        /\ potential_cardiac_doctors(raw)[day] = potential_charge_doctors(raw)[day] }

\* C17: a week in which on some workday potential_charge = potential_cardiac
\* = {a} for a single physician a has no feasible solution, and the
\* diagnostic pass reports that the same physician is the only option for
\* both charge and cardiac (before the union-size diagnostic).
C17_SingleOptionInfeasible ==
    SingleOption(rawdata) # {} =>
        /\ pc = "ready" => OptimalSolutions = {}
        /\ pc \notin {"start", "fetched", "ready", "error"} => ~solve(status)
        /\ Ended => diagnostic = "The same doctor is listed as the only option for both charge and cardiac"

\* the identifiers of a derived day's Offsite list and role fields that are
\* not in the registry
Unregistered(day) ==
    ({ day.OnCall, day.OnLate, day.PostCall, day.PostHoliday, day.PostLate,
       day.PreCall, day.PreHoliday } \cup Range(day.Offsite))
        \ (Range(everyone) \cup {NoValue, ADMIN_IDENTIFIER})

\* C18: an identifier of a day's Offsite list or of a role field that is not
\* in the active registry does not make derivation fail: it is left as it is
\* and the derived week is still emitted.
C18_UnknownIdentifierTolerated ==
    [][ (pc = "generated" /\ \E date \in DOMAIN new_structure : Unregistered(new_structure[date]) # {}) =>
          /\ pc' = "unassigned_found"
          /\ \A date \in DOMAIN new_structure :
                Unregistered(new_structure'[date]) = Unregistered(new_structure[date]) ]_vars

BetweenWorkdays ==
    { date \in DOMAIN new_structure :
        weeks.week[date - 1] = WORKDAY /\ weeks.week[date] = WORKDAY /\ weeks.week[date + 1] = WORKDAY }

\* C20: for a workday D whose calendar neighbours D-1 and D+1 are both
\* workdays the derived candidates, before the tie-breakers, are
\* PostCall = OnCall(D-1), PostLate = OnLate(D-1), PreCall = OnCall(D+1) and
\* PostHoliday = PreHoliday = null.
C20_CandidatesBetweenWorkdays ==
    pc = "generated" =>
        \A date \in BetweenWorkdays :
            LET derived == candidates(weeks.snap, weeks.week, weeks.start, date)
            IN  /\ derived.post_call = new_structure[date - 1].OnCall
                /\ derived.post_late = new_structure[date - 1].OnLate
                /\ derived.pre_call = new_structure[date + 1].OnCall
                /\ derived.post_holiday = NoValue
                /\ derived.pre_holiday = NoValue

\* a Tuesday between two workdays has been derived, and its candidates are
\* the roles it is emitted with
C20_Witness ==
    /\ pc = "generated"
    /\ \E date \in BetweenWorkdays :
          /\ new_structure[date].PostCall = new_structure[date - 1].OnCall
          /\ new_structure[date].PostLate = new_structure[date - 1].OnLate
          /\ new_structure[date].PreCall = new_structure[date + 1].OnCall

\* the workdays of the derived week
DerivedWorkdays == { date \in DOMAIN new_structure : weeks.week[date] = WORKDAY }

\* C21: for a workday D whose previous calendar day D-1 is a weekend or
\* holiday day, in the current or in the previous week, the candidates
\* PostCall and PostLate are the first and the second call of the PM shift of
\* D-1, and PostHoliday is the first call of the AM shift of D-1 when that
\* physician differs from both, otherwise null.
C21_AfterWeekend ==
    pc = "generated" =>
        \A date \in DerivedWorkdays :
            weeks.week[date - 1] = WEEKEND =>
                LET derived == candidates(weeks.snap, weeks.week, weeks.start, date)
                    yesterday == weeks.snap[date - 1]
                IN  /\ derived.post_call = yesterday.PM.Call1
                    /\ derived.post_late = yesterday.PM.Call2
                    /\ derived.post_holiday =
                          IF yesterday.AM.Call1 \notin {yesterday.PM.Call1, yesterday.PM.Call2}
                          THEN yesterday.AM.Call1 ELSE NoValue

\* a Monday has been derived whose PostHoliday is the first call of Sunday
\* morning, the previous week's last day
C21_Witness ==
    /\ pc = "generated"
    /\ weeks.week[weeks.start] = WORKDAY /\ weeks.week[weeks.start - 1] = WEEKEND
    /\ new_structure[weeks.start].PostHoliday = weeks.snap[weeks.start - 1].AM.Call1
    /\ new_structure[weeks.start].PostCall = weeks.snap[weeks.start - 1].PM.Call1

\* C22: for a workday D, PreHoliday is non-null only if D+1 is not a workday;
\* then the candidates PreCall and PreHoliday are the first and the second
\* call of the AM shift of D+1, and otherwise PreCall = OnCall(D+1) and
\* PreHoliday = null.
C22_BeforeWeekend ==
    pc = "generated" =>
        \A date \in DerivedWorkdays :
            LET derived == candidates(weeks.snap, weeks.week, weeks.start, date)
                tomorrow == weeks.snap[date + 1]
            IN  /\ new_structure[date].PreHoliday # NoValue => weeks.week[date + 1] = WEEKEND
                /\ weeks.week[date + 1] = WEEKEND =>
                      /\ derived.pre_call = tomorrow.AM.Call1
                      /\ derived.pre_holiday = tomorrow.AM.Call2
                /\ weeks.week[date + 1] = WORKDAY =>
                      /\ derived.pre_call = new_structure[date + 1].OnCall
                      /\ derived.pre_holiday = NoValue

\* a Friday has been derived whose PreHoliday is the second call of Saturday
\* morning
C22_Witness ==
    /\ pc = "generated"
    /\ \E date \in DerivedWorkdays :
          /\ weeks.week[date + 1] = WEEKEND
          /\ new_structure[date].PreHoliday = weeks.snap[date + 1].AM.Call2
          /\ new_structure[date].PreCall = weeks.snap[date + 1].AM.Call1

\* C23: in every emitted workday record each of the five transition roles
\* (PostCall, PostHoliday, PostLate, PreCall, PreHoliday) is null whenever its
\* candidate physician is in that day's Offsite set or equals that day's
\* OnCall or OnLate.
C23_CandidatesDropped ==
    pc = "generated" =>
        \A date \in DerivedWorkdays :
            LET derived == candidates(weeks.snap, weeks.week, weeks.start, date)
                day == new_structure[date]
                dropped == Range(day.Offsite) \cup {day.OnCall, day.OnLate}
            IN  /\ derived.post_call \in dropped => day.PostCall = NoValue
                /\ derived.post_holiday \in dropped => day.PostHoliday = NoValue
                /\ derived.post_late \in dropped => day.PostLate = NoValue
                /\ derived.pre_call \in dropped => day.PreCall = NoValue
                /\ derived.pre_holiday \in dropped => day.PreHoliday = NoValue

\* the fields of a derived week that hold a call or a transition role
RoleFields ==
    {"OnCall", "OnLate", "Post-Call", "Post-Holiday", "Post-Late", "Pre-Call", "PreHoliday"}

\* C24: for every day d of the Schedule Model, working(d) contains every
\* physician who holds OnCall, OnLate, a filled transition role (PostCall,
\* PostHoliday, PostLate, PreCall or PreHoliday) or membership in Unassigned
\* on d, and each such non-Unassigned physician has a fixed peel position in
\* preassigned(d).
C24_WorkingHoldsEveryRole ==
    pc \in {"loaded", "derived_valid", "derived_illegal"} =>
        \A day \in Range(days(rawdata)) :
            /\ Range(rawdata["Unassigned"][day]) \subseteq Range(working(rawdata)[day])
            /\ \A field \in RoleFields :
                  rawdata[field][day] # NoValue =>
                      /\ rawdata[field][day] \in Range(working(rawdata)[day])
                      /\ rawdata[field][day] \in Values(preassigned[day])

\* the positions of preassigned(day) that are Whine pins: they lie inside the
\* Unassigned range
PinnedPositions(day) == Keys(preassigned[day]) \cap UnassignedRange(rawdata, day)

C27_TempFileRemoved ==
    pc \in {"debug_ended", "debug_raised"} => temp_file \notin DOMAIN files

\* the call and transition roles of one record of generate_new_structure
RolesOf(day) ==
    <<day.OnCall, day.OnLate, day.PostCall, day.PostHoliday, day.PostLate, day.PreCall,
      day.PreHoliday>>

\* C28: in every workday record emitted by generate_new_structure, no
\* physician occupies more than one of the roles OnCall, OnLate, PostCall,
\* PostHoliday, PostLate, PreCall, PreHoliday, so the day's working list never
\* contains a physician twice.
C28_OneRoleEach ==
    /\ pc = "generated" =>
          \A date \in DerivedWorkdays :
              LET roles == RolesOf(new_structure[date])
              IN  \A i, j \in DOMAIN roles :
                      (i < j /\ roles[i] # NoValue) => roles[i] # roles[j]
    /\ pc \in {"loaded", "derived_valid", "derived_illegal"} =>
          \A day \in Range(days(rawdata)) :
              rawdata["Day"][day] = WORKDAY => ~HasDuplicates(working(rawdata)[day])

\* C29: after any sequence of Whine pins accepted by load_requirements,
\* preassigned(d) assigns distinct positions to distinct physicians (no
\* physician holds two positions) and every pinned position lies inside the
\* day's Unassigned range and is held by a physician of that day's Unassigned
\* pool.
C29_PinsWellFormed ==
    pc = "ready" =>
        \A day \in DOMAIN requirements["Whine"] :
            /\ \A i, j \in DOMAIN preassigned[day] :
                  i # j => /\ preassigned[day][i][1] # preassigned[day][j][1]
                           /\ preassigned[day][i][2] # preassigned[day][j][2]
            /\ \A pin \in Range(requirements["Whine"][day]) :
                  /\ pin[2] \in UnassignedRange(rawdata, day)
                  /\ pin[1] \in Range(rawdata["Unassigned"][day])

\* C30: on every workday d with a non-empty Unassigned pool, charge_order(d)
\* is a position inside the Unassigned range of d that is not held by a
\* preassigned physician, so that electing a charge-capable Unassigned
\* physician as charge is satisfiable together with peel uniqueness and
\* pre-assignment fixation, also when no transition role is filled and when
\* Whine pins are present.
C30_ChargeOrderFree ==
    pc \in {"fetched", "ready"} =>
        \A day \in Workdays :
            Len(rawdata["Unassigned"][day]) >= 1 =>
                /\ charge_order(rawdata, preassigned)[day] \in UnassignedRange(rawdata, day)
                /\ charge_order(rawdata, preassigned)[day] \notin Keys(preassigned[day])

=============================================================================
